---- MODULE Spec2Model ----
(***************************************************************************)
(* OAuth access-token lifecycle of the Spotify player (src/lib/auth.ts,    *)
(* the NextAuth jwt/session callbacks and refreshAccessToken) together     *)
(* with the API route handlers that consume the session.                   *)
(*                                                                         *)
(* The credential ("token") lives in the NextAuth session cookie: every    *)
(* request decodes the cookie, passes the token through the jwt callback,  *)
(* and the value the callback returns is encoded back into the cookie.     *)
(* A request whose token is expired suspends on the token endpoint         *)
(* (await fetch), so several requests can be in flight at once.            *)
(***************************************************************************)
EXTENDS Integers, FiniteSets, Sequences, Bags, TLC

(* ---------------------------- bounds ----------------------------------- *)
MaxInFlight == 2     \* requests awaiting the token endpoint at one time
TickSec == 45        \* seconds the clock advances per Tick
MaxTicks == 2        \* the clock stops after MaxTicks ticks
MaxIssued == 2       \* access tokens the provider mints
MaxTokens == 2       \* access tokens the browser's session goes through
MaxFetches == 1      \* fetchData() calls of the playlist page in flight
MaxInstances == 2    \* Spotify.Player instances created
MaxToasts == 3       \* toasts shown by one ToastProvider
MaxParamLen == 3     \* characters of a 'limit' query parameter
MaxItems == 2        \* items on one provider page of tracks
VolumeSteps == 4     \* positions of the volume slider above 0
MaxPending == 2      \* player.setVolume calls awaited at once
MaxPlaylists == 101  \* playlists in the user's collection

(* JavaScript undefined / missing value of a string or number field *)
Absent == 0
NoError == "undefined"
RefreshAccessTokenError == "RefreshAccessTokenError"
Null == [null |-> TRUE]

(* provider-reported lifetimes, in seconds *)
Lifetimes == {TickSec, 2 * TickSec}
(* the margin the specification recommends (60 seconds), in milliseconds *)
SafetyMarginMs == 60 * 1000

(* how a token-endpoint exchange can end: new tokens; a 4xx rejection of   *)
(* the refresh token; a 5xx answer; fetch throwing (network error,         *)
(* timeout); a body that does not parse                                    *)
ReplyKinds == {"ok", "rejected", "server5xx", "network", "badBody"}
Terminal == {"rejected"}
Transient == {"server5xx", "network"}

(* now: Date.now(); stored: the token in the session cookie (Null when     *)
(* signed out); issued: tokens minted by the provider so far; inflight:    *)
(* the requests suspended in refreshAccessToken's await, each one the      *)
(* token it was called with (a bag: two requests may hold the same         *)
(* token); failedBy: how the latest failed exchange failed; last: the      *)
(* sign-in or request that the latest step completed (Null if none)        *)
VARIABLES now, stored, issued, inflight, failedBy, last

vars == <<now, stored, issued, inflight, failedBy, last>>

(* a route handler's invocation: the provider call it awaits, and the      *)
(* response it returned last                                               *)
VARIABLES call, response

apiVars == <<call, response>>

(* the state outside each component, which the component's steps leave     *)
(* alone                                                                   *)
(* the browser: useSession's answer, the page shown and the playlist page's *)
(* state, the Player component, the connected Spotify.Player instance, the  *)
(* pending handlers, the bearer token the latest step handed out, and the   *)
(* handlePlayTrack invocation the latest step brought to its end            *)
VARIABLES status, data, loc, page, pl, inst, created, auto, play, used,
          ended

clientVars ==
  <<status, data, loc, page, pl, inst, created, auto, play, used, ended>>

(* the ToastProvider: the toast list, the pending auto-dismiss timers and  *)
(* the number of toasts shown so far                                       *)
VARIABLES toasts, timers, minted

toastVars == <<toasts, timers, minted>>

(* The volume controls of the Player component: its volume and isMuted    *)
(* state (volume in hundredths), whether its player state holds an SDK     *)
(* player, the volume that player was last set to, and the setVolume       *)
(* calls being awaited, oldest first.                                      *)
VARIABLES volume, isMuted, hasPlayer, sdkVolume, pending

volumeVars == <<volume, isMuted, hasPlayer, sdkVolume, pending>>

(* fetchPlaylistInfo of the playlist page: the number of playlists in the  *)
(* user's collection (their ids are 1..collection, in the provider's       *)
(* order), the id in the page's URL (0 before a page is open), how far the *)
(* lookup is, and the playlist and playlistNotFound state of the page.     *)
VARIABLES collection, playlistId, stage, playlist, playlistNotFound

lookupVars == <<collection, playlistId, stage, playlist, playlistNotFound>>

outsideAuth == <<apiVars, clientVars, toastVars, volumeVars, lookupVars>>
outsideApi == <<vars, clientVars, toastVars, volumeVars, lookupVars>>
outsideClient == <<vars, apiVars, toastVars, volumeVars, lookupVars>>
outsideToast == <<vars, apiVars, clientVars, volumeVars, lookupVars>>
outsideVolume == <<vars, apiVars, clientVars, toastVars, lookupVars>>
outsideLookup == <<vars, apiVars, clientVars, toastVars, volumeVars>>

LookupStart ==
  /\ collection = 0
  /\ playlistId = 0
  /\ stage = "closed"
  /\ playlist = Absent
  /\ playlistNotFound = FALSE

VolumeStart ==
  /\ volume = 50
  /\ isMuted = FALSE
  /\ hasPlayer = FALSE
  /\ sdkVolume = 50
  /\ pending = <<>>

ToastStart == toasts = <<>> /\ timers = {} /\ minted = 0

ApiStart == call = Null /\ response = Null

ClientStart ==
  /\ status = "loading"
  /\ data = Null
  /\ loc = "home"
  /\ page = Null
  /\ pl = Null
  /\ inst = Null
  /\ created = 0
  /\ auto = Null
  /\ play = Null
  /\ used = Null
  /\ ended = Null

(* ------------------------- src/lib/auth.ts ------------------------------ *)
(* the token NextAuth hands to the jwt callback on sign-in *)
DefaultToken ==
  [accessToken |-> Absent, refreshToken |-> Absent, accessTokenExpires |-> 0,
   user |-> Absent, error |-> NoError]

(* the sign-in branch with expires_at taken as milliseconds already *)
JwtSignIn_SecondsAsMs(token, acc, user) ==
  [token EXCEPT !.accessToken = acc.access_token,
                !.refreshToken = acc.refresh_token,
                !.accessTokenExpires =
                   IF acc.expires_at # Absent THEN acc.expires_at ELSE 0,
                !.user = user]

(* jwt callback, "Initial sign in" branch *)
JwtSignIn(token, acc, user) ==
  [token EXCEPT !.accessToken = acc.access_token,
                !.refreshToken = acc.refresh_token,
                !.accessTokenExpires =
                   IF acc.expires_at # Absent THEN acc.expires_at * 1000 ELSE 0,
                !.user = user]

(* the expiry test with the comparison turned around *)
NotExpiredYet_Inverted(token, t) ==
  token.accessTokenExpires # 0 /\ t > token.accessTokenExpires

(* the expiry test with <= for < *)
NotExpiredYet_Inclusive(token, t) ==
  token.accessTokenExpires # 0 /\ t <= token.accessTokenExpires

(* jwt callback: token.accessTokenExpires && Date.now() < token.accessTokenExpires *)
NotExpiredYet(token, t) ==
  token.accessTokenExpires # 0 /\ t < token.accessTokenExpires

(* refreshAccessToken taking the reply's refresh_token without the ?? *)
RefreshAccessToken_DropsRefreshToken(token, reply, t) ==
  IF reply.kind = "ok"
  THEN [token EXCEPT !.accessToken = reply.access_token,
                     !.accessTokenExpires = t + reply.expires_in * 1000,
                     !.refreshToken = reply.refresh_token]
  ELSE [token EXCEPT !.error = RefreshAccessTokenError]

(* refreshAccessToken flagging the error only when the provider rejects *)
RefreshAccessToken_TransientSilent(token, reply, t) ==
  IF reply.kind = "ok"
  THEN [token EXCEPT !.accessToken = reply.access_token,
                     !.accessTokenExpires = t + reply.expires_in * 1000,
                     !.refreshToken = IF reply.refresh_token # Absent
                                      THEN reply.refresh_token
                                      ELSE token.refreshToken]
  ELSE IF reply.kind \in Transient
  THEN token
  ELSE [token EXCEPT !.error = RefreshAccessTokenError]

(* refreshAccessToken dropping the tokens when the exchange fails *)
RefreshAccessToken_ClearsOnFailure(token, reply, t) ==
  IF reply.kind = "ok"
  THEN [token EXCEPT !.accessToken = reply.access_token,
                     !.accessTokenExpires = t + reply.expires_in * 1000,
                     !.refreshToken = IF reply.refresh_token # Absent
                                      THEN reply.refresh_token
                                      ELSE token.refreshToken]
  ELSE [token EXCEPT !.accessToken = Absent, !.refreshToken = Absent,
                     !.accessTokenExpires = 0,
                     !.error = RefreshAccessTokenError]

(* refreshAccessToken putting the caught error itself into the token *)
RefreshAccessToken_RawError(token, reply, t) ==
  IF reply.kind = "ok"
  THEN [token EXCEPT !.accessToken = reply.access_token,
                     !.accessTokenExpires = t + reply.expires_in * 1000,
                     !.refreshToken = IF reply.refresh_token # Absent
                                      THEN reply.refresh_token
                                      ELSE token.refreshToken]
  ELSE [token EXCEPT !.error = reply.kind]

(* refreshAccessToken adding expires_in to Date.now() without * 1000 *)
RefreshAccessToken_SecondsLifetime(token, reply, t) ==
  IF reply.kind = "ok"
  THEN [token EXCEPT !.accessToken = reply.access_token,
                     !.accessTokenExpires = t + reply.expires_in,
                     !.refreshToken = IF reply.refresh_token # Absent
                                      THEN reply.refresh_token
                                      ELSE token.refreshToken]
  ELSE [token EXCEPT !.error = RefreshAccessTokenError]

(* refreshAccessToken: the value it returns for a token-endpoint reply *)
RefreshAccessToken(token, reply, t) ==
  IF reply.kind = "ok"
  THEN [token EXCEPT !.accessToken = reply.access_token,
                     !.accessTokenExpires = t + reply.expires_in * 1000,
                     !.refreshToken = IF reply.refresh_token # Absent
                                      THEN reply.refresh_token
                                      ELSE token.refreshToken]
  ELSE [token EXCEPT !.error = RefreshAccessTokenError]

(* the session NextAuth hands to the session callback *)
DefaultSession == [user |-> Absent, accessToken |-> Absent, error |-> NoError]

(* session callback *)
SessionCallback(session, token) ==
  IF token # Null /\ token.user # Absent
  THEN [session EXCEPT !.user = token.user,
                       !.accessToken = token.accessToken,
                       !.error = token.error]
  ELSE session

(* route handlers: if (!session?.accessToken) *)
Unauthorized(session) == session = Null \/ session.accessToken = Absent

(* the three route handlers, from getServerSession's answer on: 401 when  *)
(* the guard rejects, else a provider call with session.accessToken as    *)
(* the bearer token (status 0: the handler awaits the provider)           *)
(* the route handler without its session guard *)
MeRoute_NoGuard(session) ==
  [status |-> 0, error |-> "",
   bearer |-> IF session = Null THEN Absent ELSE session.accessToken]

MeRoute(session) ==
  IF Unauthorized(session)
  THEN [status |-> 401, error |-> "Unauthorized", bearer |-> Absent]
  ELSE [status |-> 0, error |-> "", bearer |-> session.accessToken]

PlaylistsRoute(session) ==
  IF Unauthorized(session)
  THEN [status |-> 401, error |-> "Unauthorized", bearer |-> Absent]
  ELSE [status |-> 0, error |-> "", bearer |-> session.accessToken]

TracksRoute(session) ==
  IF Unauthorized(session)
  THEN [status |-> 401, error |-> "Unauthorized", bearer |-> Absent]
  ELSE [status |-> 0, error |-> "", bearer |-> session.accessToken]

(* ------------------------------ state ----------------------------------- *)
Init ==
  /\ now = 0
  /\ stored = Null
  /\ issued = 0
  /\ inflight = EmptyBag
  /\ failedBy = "none"
  /\ last = Null
  /\ ApiStart
  /\ ClientStart
  /\ ToastStart
  /\ VolumeStart
  /\ LookupStart

(* the record of a completed request: the jwt callback returned ret for    *)
(* the token tok (after the token endpoint's reply, if it refreshed), the  *)
(* session callback made the session of it, and the session reaches its    *)
(* consumer: the client (useSession) or one of the route handlers.         *)
Deliver(tok, reply, ret) ==
  LET s == IF ret = Null THEN Null ELSE SessionCallback(DefaultSession, ret) IN
  [op |-> "request", tok |-> tok, reply |-> reply, ret |-> ret,
   session |-> s, me |-> MeRoute(s), playlists |-> PlaylistsRoute(s),
   tracks |-> TracksRoute(s)]

(* ----------------------------- actions ---------------------------------- *)
Tick ==
  /\ now + TickSec * 1000 <= MaxTicks * TickSec * 1000
  /\ now' = now + TickSec * 1000
  /\ last' = Null
  /\ UNCHANGED <<stored, issued, inflight, failedBy>>
  /\ UNCHANGED outsideAuth

(* OAuth callback: the provider returned an account, the jwt callback runs *)
(* with account and user, and its token becomes the session cookie.        *)
SignIn ==
  /\ issued < MaxIssued
  /\ \E rt \in {Absent, issued + 1},
        ea \in {Absent} \cup {(now \div 1000) + l : l \in Lifetimes} :
       LET acc == [access_token |-> issued + 1, refresh_token |-> rt,
                   expires_at |-> ea]
           ret == JwtSignIn(DefaultToken, acc, 1) IN
       /\ stored' = ret
       /\ last' = [op |-> "signin", account |-> acc, ret |-> ret]
  /\ issued' = issued + 1
  /\ failedBy' = "none"
  /\ UNCHANGED <<now, inflight>>
  /\ UNCHANGED outsideAuth

(* signOut(): the session cookie is removed *)
SignOut ==
  /\ stored # Null
  /\ stored' = Null
  /\ last' = Null
  /\ UNCHANGED <<now, issued, inflight, failedBy>>
  /\ UNCHANGED outsideAuth

(* a request arrives without a session cookie: there is no token, the      *)
(* callbacks do not run and the session is null                            *)
RequestSignedOut ==
  /\ stored = Null
  /\ last' = Deliver(Null, Null, Null)
  /\ UNCHANGED <<now, stored, issued, inflight, failedBy>>
  /\ UNCHANGED outsideAuth

(* a request with a token that has not expired yet: the jwt callback       *)
(* returns the token as it is                                              *)
RequestFresh ==
  /\ stored # Null
  /\ NotExpiredYet(stored, now)
  /\ last' = Deliver(stored, Null, stored)
  /\ UNCHANGED <<now, stored, issued, inflight, failedBy>>
  /\ UNCHANGED outsideAuth

(* a request with an expired token: refreshAccessToken(token) posts to the *)
(* token endpoint and awaits the reply                                     *)
RequestRefresh ==
  /\ stored # Null
  /\ ~NotExpiredYet(stored, now)
  /\ BagCardinality(inflight) < MaxInFlight
  /\ inflight' = inflight (+) SetToBag({stored})
  /\ last' = Null
  /\ UNCHANGED <<now, stored, issued, failedBy>>
  /\ UNCHANGED outsideAuth

(* the token endpoint answers the request that sent tok with new tokens;  *)
(* it does so only for a refresh token it has issued                       *)
RefreshOk(tok) ==
  /\ BagIn(tok, inflight)
  /\ tok.refreshToken # Absent
  /\ issued < MaxIssued
  /\ \E rt \in {Absent, issued + 1}, l \in Lifetimes :
       LET reply == [kind |-> "ok", access_token |-> issued + 1,
                     expires_in |-> l, refresh_token |-> rt]
           ret == RefreshAccessToken(tok, reply, now) IN
       /\ stored' = ret
       /\ last' = Deliver(tok, reply, ret)
  /\ inflight' = inflight (-) SetToBag({tok})
  /\ issued' = issued + 1
  /\ UNCHANGED <<now, failedBy>>
  /\ UNCHANGED outsideAuth

(* the exchange of the request that sent tok fails: fetch throws, the body *)
(* does not parse, or the status is not ok                                 *)
RefreshFail(tok, kind) ==
  /\ BagIn(tok, inflight)
  /\ kind \in ReplyKinds \ {"ok"}
  /\ LET reply == [kind |-> kind, access_token |-> Absent,
                   expires_in |-> 0, refresh_token |-> Absent]
         ret == RefreshAccessToken(tok, reply, now) IN
       /\ stored' = ret
       /\ last' = Deliver(tok, reply, ret)
  /\ inflight' = inflight (-) SetToBag({tok})
  /\ failedBy' = kind
  /\ UNCHANGED <<now, issued>>
  /\ UNCHANGED outsideAuth

Next ==
  \/ Tick
  \/ SignIn
  \/ SignOut
  \/ RequestSignedOut
  \/ RequestFresh
  \/ RequestRefresh
  \/ \E tok \in BagToSet(inflight) : RefreshOk(tok)
  \/ \E tok \in BagToSet(inflight), kind \in ReplyKinds \ {"ok"} : RefreshFail(tok, kind)

Spec == Init /\ [][Next]_vars

TypeOK ==
  /\ now \in 0..(MaxTicks * TickSec * 1000)
  /\ issued \in 0..MaxIssued
  /\ BagCardinality(inflight) <= MaxInFlight

(* ------------------- route handlers: error translation ------------------ *)
(* HTTP statuses the provider answers a failed call with *)
ProviderStatuses == {400, 401, 403, 404, 429, 500, 502, 503}

(* the message of the parsed error body: Spotify's { error: {...} } has no  *)
(* top-level message (""), the fallback body carries response.statusText    *)
ErrorBodies == {[message |-> ""], [message |-> "statusText"]}

(* new SpotifyAPIError(response.status, errorData), as spotifyFetch throws  *)
(* it for a response that is not ok                                         *)
SpotifyAPIError(httpStatus, spotifyError) ==
  [api |-> TRUE, status |-> httpStatus, message |-> spotifyError.message]

(* everything the try block of a route handler can throw: the provider's    *)
(* errors, or another exception (fetch failing, a body that does not parse) *)
Thrown ==
  {SpotifyAPIError(st, b) : st \in ProviderStatuses, b \in ErrorBodies}
    \cup {[api |-> FALSE, status |-> Absent, message |-> m] :
            m \in {"fetch failed", "Unexpected token"}}

(* handleSpotifyError: message and optional status (Absent: undefined) *)
HandleSpotifyError(error) ==
  IF error.api
  THEN CASE error.status = 401 ->
              [message |-> "Authentication required", status |-> 401]
         [] error.status = 403 ->
              [message |-> "Spotify Premium required for playback",
               status |-> 403]
         [] error.status = 404 ->
              [message |-> "Resource not found", status |-> 404]
         [] error.status = 429 ->
              [message |-> "Rate limit exceeded, please try again later",
               status |-> 429]
         [] error.status \in {502, 503} ->
              [message |-> "Spotify service temporarily unavailable",
               status |-> error.status]
         [] OTHER ->
              [message |-> IF error.message # "" THEN error.message
                           ELSE "Spotify API error",
               status |-> error.status]
  ELSE [message |-> "An unexpected error occurred", status |-> Absent]

(* the catch block without the default of 500 for a missing status *)
RouteCatch_NoDefault(error) ==
  LET h == HandleSpotifyError(error) IN
  [status |-> h.status, error |-> "Spotify API Error", message |-> h.message]

(* the catch block of the three route handlers *)
RouteCatch(error) ==
  LET h == HandleSpotifyError(error) IN
  [status |-> IF h.status = Absent THEN 500 ELSE h.status,
   error |-> "Spotify API Error", message |-> h.message]

(* the sessions getServerSession can answer a route handler with *)
ServerSessions ==
  {Null, DefaultSession}
    \cup {[user |-> 1, accessToken |-> t, error |-> e] :
            t \in 1..MaxIssued, e \in {NoError, RefreshAccessTokenError}}

Routes == {"me", "playlists", "tracks"}

RouteGuard(route, session) ==
  CASE route = "me" -> MeRoute(session)
    [] route = "playlists" -> PlaylistsRoute(session)
    [] route = "tracks" -> TracksRoute(session)

(* a JavaScript number as the route handlers compute with it: NaN or an   *)
(* integer                                                                  *)
NaN == [nan |-> TRUE, v |-> 0]

Num(n) == [nan |-> FALSE, v |-> n]

DigitVal ==
  [c \in {"0", "1", "2", "3", "4", "5", "6", "7", "8", "9"} |->
     CASE c = "0" -> 0 [] c = "1" -> 1 [] c = "2" -> 2 [] c = "3" -> 3
       [] c = "4" -> 4 [] c = "5" -> 5 [] c = "6" -> 6 [] c = "7" -> 7
       [] c = "8" -> 8 [] c = "9" -> 9]

RECURSIVE DigitsValue(_, _)
(* the value of the longest prefix of decimal digits of str *)
DigitsValue(str, acc) ==
  IF str = <<>> \/ Head(str) \notin DOMAIN DigitVal
  THEN acc
  ELSE DigitsValue(Tail(str), acc * 10 + DigitVal[Head(str)])

(* parseInt(str) on a string given as its sequence of characters: an       *)
(* optional sign, then the leading digits; NaN when there is no digit      *)
ParseInt(str) ==
  LET neg == str # <<>> /\ Head(str) = "-"
      rest == IF neg THEN Tail(str) ELSE str
  IN IF rest = <<>> \/ Head(rest) \notin DOMAIN DigitVal
     THEN NaN
     ELSE Num((IF neg THEN -1 ELSE 1) * DigitsValue(rest, 0))

(* Math.min(a, b): NaN when either argument is NaN *)
MathMin(a, b) ==
  IF a.nan \/ b.nan THEN NaN
  ELSE IF a.v <= b.v THEN a ELSE b

(* the characters a 'limit' query parameter is made of *)
ParamChars == {"0", "9", "-", "a"}

(* searchParams.get('limit') when the query has no such parameter *)
NoParam == [present |-> FALSE, text |-> <<>>]

(* searchParams.get('limit'): null when the parameter is absent, else its  *)
(* text                                                                     *)
LimitParams ==
  {NoParam}
    \cup {[present |-> TRUE, text |-> t] :
            t \in UNION {[1..n -> ParamChars] : n \in 0..MaxParamLen}}

DefaultLimit(route) ==
  IF route = "playlists" THEN <<"2", "0">> ELSE <<"1", "0", "0">>

LimitCap(route) == IF route = "playlists" THEN 50 ELSE 100

(* Math.min(parseInt(searchParams.get('limit') || default), cap) *)
PageLimit(route, param) ==
  MathMin(ParseInt(IF ~param.present \/ param.text = <<>>
                   THEN DefaultLimit(route)
                   ELSE param.text),
          Num(LimitCap(route)))

(* one item of a provider page: its track (null as Absent) and whether it  *)
(* is a local file                                                          *)
ProviderItems == [track : {Absent, 1, 2}, is_local : BOOLEAN]

(* total, limit and offset as the provider reports them *)
PageInfos ==
  {[total |-> 2, limit |-> 100, offset |-> 0],
   [total |-> 7, limit |-> 2, offset |-> 5]}

(* the pages getPlaylistTracks can resolve to *)
ProviderPages ==
  {[items |-> its, next |-> nx, total |-> inf.total, limit |-> inf.limit,
    offset |-> inf.offset] :
     its \in UNION {[1..n -> ProviderItems] : n \in 0..MaxItems},
     nx \in {"", "next"}, inf \in PageInfos}

(* the body with local files kept *)
TracksBody_KeepsLocal(tracks) ==
  LET kept == SelectSeq(tracks.items, LAMBDA item : item.track # Absent)
  IN [items |-> [i \in DOMAIN kept |-> [track |-> kept[i].track]],
      next |-> tracks.next, total |-> tracks.total, limit |-> tracks.limit,
      offset |-> tracks.offset]

(* the response body the tracks route builds from the provider page *)
TracksBody(tracks) ==
  LET kept == SelectSeq(tracks.items,
                        LAMBDA item : item.track # Absent /\ ~item.is_local)
  IN [items |-> [i \in DOMAIN kept |-> [track |-> kept[i].track]],
      next |-> tracks.next, total |-> tracks.total, limit |-> tracks.limit,
      offset |-> tracks.offset]

(* GET on a route: the page size is computed, then the guard answers 401   *)
(* or the handler calls the provider with the bearer and the page size     *)
ApiRequest(route, session, param) ==
  /\ call = Null
  /\ route = "me" => param = NoParam
  /\ LET g == RouteGuard(route, session) IN
       IF g.status = 401
       THEN /\ response' = [route |-> route, bearer |-> Absent,
                            thrown |-> Null, status |-> 401,
                            error |-> g.error,
                            message |-> "Authentication required",
                            provided |-> Null, body |-> Null]
            /\ call' = Null
       ELSE /\ call' = [route |-> route, bearer |-> g.bearer,
                        param |-> param,
                        limit |-> IF route = "me" THEN Null
                                  ELSE PageLimit(route, param)]
            /\ response' = Null
  /\ UNCHANGED outsideApi

(* the provider call succeeds and the handler returns the mapped body *)
ProviderOk(tracks) ==
  /\ call # Null
  /\ call.route # "tracks" => tracks = Null
  /\ call.route = "tracks" => tracks # Null
  /\ response' = [route |-> call.route, bearer |-> call.bearer,
                  thrown |-> Null, status |-> 200, error |-> "",
                  message |-> "", provided |-> tracks,
                  body |-> IF tracks = Null THEN Null
                           ELSE TracksBody(tracks)]
  /\ call' = Null
  /\ UNCHANGED outsideApi

(* the try block throws and the catch block answers *)
ProviderThrows(error) ==
  /\ call # Null
  /\ LET r == RouteCatch(error) IN
       response' = [route |-> call.route, bearer |-> call.bearer,
                    thrown |-> error, status |-> r.status,
                    error |-> r.error, message |-> r.message,
                    provided |-> Null, body |-> Null]
  /\ call' = Null
  /\ UNCHANGED outsideApi

NextApi ==
  \/ \E route \in Routes, session \in ServerSessions, param \in LimitParams :
       ApiRequest(route, session, param)
  \/ \E tracks \in ProviderPages \cup {Null} : ProviderOk(tracks)
  \/ \E error \in Thrown : ProviderThrows(error)

SpecApi == Init /\ [][NextApi]_apiVars

(* ------------------------- the browser: pages --------------------------- *)
(* the sessions useSession hands to the components when authenticated *)
ClientSessions ==
  {[user |-> 1, accessToken |-> t, error |-> e] :
     t \in 1..MaxTokens, e \in {NoError, RefreshAccessTokenError}}

(* what the home page returns *)
HomePage(st, sess) ==
  IF st = "loading" THEN "spinner"
  ELSE IF sess = Null THEN "signInPrompt"
  ELSE IF sess.error = RefreshAccessTokenError THEN "signInAgain"
  ELSE "playlists"

(* the playlist page without its redirect for an unauthenticated visitor *)
PlaylistPage_NoRedirect(st, sess, pg) ==
  IF ~pg.mounted THEN [view |-> "null", push |-> "", player |-> FALSE]
  ELSE IF st = "loading"
    THEN [view |-> "skeleton", push |-> "", player |-> FALSE]
  ELSE IF pg.playlistId = Absent
    THEN [view |-> "null", push |-> "/", player |-> FALSE]
  ELSE IF pg.playlistNotFound
    THEN [view |-> "notFound", push |-> "", player |-> FALSE]
  ELSE IF pg.loading
    THEN [view |-> "skeleton", push |-> "", player |-> FALSE]
  ELSE [view |-> "content", push |-> "", player |-> sess # Null]

(* what the playlist page returns: the view, the router.push it issues     *)
(* while rendering, and whether the view holds the Player                  *)
PlaylistPage(st, sess, pg) ==
  IF ~pg.mounted THEN [view |-> "null", push |-> "", player |-> FALSE]
  ELSE IF st = "loading"
    THEN [view |-> "skeleton", push |-> "", player |-> FALSE]
  ELSE IF pg.playlistId = Absent
    THEN [view |-> "null", push |-> "/", player |-> FALSE]
  ELSE IF st = "unauthenticated"
    THEN [view |-> "null", push |-> "/", player |-> FALSE]
  ELSE IF pg.playlistNotFound
    THEN [view |-> "notFound", push |-> "", player |-> FALSE]
  ELSE IF pg.loading
    THEN [view |-> "skeleton", push |-> "", player |-> FALSE]
  ELSE [view |-> "content", push |-> "", player |-> sess # Null]

(* what the page at location l returns *)
Render(l, st, sess, pg) ==
  IF l = "home"
  THEN [view |-> HomePage(st, sess), push |-> "", player |-> FALSE]
  ELSE PlaylistPage(st, sess, pg)

(* the page on screen *)
Shown == Render(loc, status, data, page)

(* the playlist page's state at its first render *)
NewPage(id) ==
  [playlistId |-> id, mounted |-> FALSE, loading |-> TRUE,
   playlistNotFound |-> FALSE, deviceId |-> Absent, playerError |-> "",
   fetches |-> 0]

(* the effect on [status, session?.accessToken, playlistId]: fetchData()   *)
(* sets loading and starts the two fetches                                 *)
FetchEffect(st, sess, pg) ==
  IF st = "authenticated" /\ sess # Null /\ sess.accessToken # Absent
       /\ pg.playlistId # Absent
  THEN [pg EXCEPT !.loading = TRUE, !.fetches = @ + 1]
  ELSE pg

(* the Player component's state when it mounts *)
FreshPlayer ==
  [sdkLoaded |-> FALSE, player |-> 0, cleanup |-> 0, stale |-> TRUE]

(* the init effect's cleanup: spotifyPlayer.disconnect() *)
Disconnect(i, id) == IF i # Null /\ i.id = id THEN Null ELSE i

(* a render of the page reaches the Player: it mounts with the content     *)
(* view, gets new onReady/onError props with every render of the page, and *)
(* runs its cleanup when the view leaves the screen                        *)
PlayerFollows(l, st, sess, pg) ==
  IF Render(l, st, sess, pg).player
  THEN /\ pl' = IF pl = Null THEN FreshPlayer ELSE [pl EXCEPT !.stale = TRUE]
       /\ inst' = inst
  ELSE /\ pl' = Null
       /\ inst' = IF pl = Null THEN inst ELSE Disconnect(inst, pl.cleanup)

(* useSession's first answer *)
SessionLoaded ==
  /\ status = "loading"
  /\ \/ status' = "unauthenticated" /\ data' = Null
     \/ status' = "authenticated" /\ data' \in ClientSessions
  /\ IF page # Null /\ page.mounted
     THEN /\ page.fetches < MaxFetches
          /\ page' = FetchEffect(status', data', page)
     ELSE page' = page
  /\ PlayerFollows(loc, status', data', page')
  /\ used' = Null
  /\ ended' = Null
  /\ UNCHANGED <<loc, created, auto, play>>
  /\ UNCHANGED outsideClient

(* a refetch of the session answers with other tokens or with the error *)
SessionUpdate ==
  /\ status = "authenticated"
  /\ data' \in ClientSessions \ {data}
  /\ IF page # Null /\ page.mounted
          /\ data'.accessToken # data.accessToken
     THEN /\ page.fetches < MaxFetches
          /\ page' = FetchEffect(status, data', page)
     ELSE page' = page
  /\ PlayerFollows(loc, status, data', page')
  /\ used' = Null
  /\ ended' = Null
  /\ UNCHANGED <<status, loc, created, auto, play>>
  /\ UNCHANGED outsideClient

(* a refetch of the session finds none any more *)
SessionLost ==
  /\ status = "authenticated"
  /\ status' = "unauthenticated"
  /\ data' = Null
  /\ PlayerFollows(loc, status', data', page)
  /\ used' = Null
  /\ ended' = Null
  /\ UNCHANGED <<loc, page, created, auto, play>>
  /\ UNCHANGED outsideClient

(* signIn / signOut with callbackUrl '/': the document is loaded anew *)
Reload ==
  /\ status # "loading"
  /\ status' = "loading"
  /\ data' = Null
  /\ loc' = "home"
  /\ page' = Null
  /\ pl' = Null
  /\ inst' = Null
  /\ auto' = Null
  /\ play' = Null
  /\ used' = Null
  /\ ended' = Null
  /\ UNCHANGED created
  /\ UNCHANGED outsideClient

(* navigation to /playlist/[id]: the page renders for the first time *)
OpenPlaylist ==
  /\ loc = "home"
  /\ loc' = "playlist"
  /\ page' = NewPage(1)
  /\ PlayerFollows(loc', status, data, page')
  /\ used' = Null
  /\ ended' = Null
  /\ UNCHANGED <<status, data, created, auto, play>>
  /\ UNCHANGED outsideClient

(* the effects of the first render: setMounted(true), and fetchData() for  *)
(* an authenticated visitor                                                *)
FirstEffects ==
  /\ page # Null
  /\ ~page.mounted
  /\ page' = FetchEffect(status, data, [page EXCEPT !.mounted = TRUE])
  /\ PlayerFollows(loc, status, data, page')
  /\ used' = Null
  /\ ended' = Null
  /\ UNCHANGED <<status, data, loc, created, auto, play>>
  /\ UNCHANGED outsideClient

(* fetchData() is through: the playlist was found, was in neither page of  *)
(* the user's playlists, or a fetch failed                                 *)
FetchDone(outcome) ==
  /\ page # Null
  /\ page.fetches > 0
  /\ page' = [page EXCEPT !.fetches = @ - 1, !.loading = FALSE,
                          !.playlistNotFound = @ \/ outcome = "notFound"]
  /\ PlayerFollows(loc, status, data, page')
  /\ used' = Null
  /\ ended' = Null
  /\ UNCHANGED <<status, data, loc, created, auto, play>>
  /\ UNCHANGED outsideClient

(* router.push('/') issued by the playlist page takes effect, or the       *)
(* visitor goes back to the home page                                      *)
LeavePlaylist ==
  /\ loc = "playlist"
  /\ loc' = "home"
  /\ page' = Null
  /\ auto' = Null
  /\ play' = IF play = Null THEN Null ELSE [play EXCEPT !.detached = TRUE]
  /\ PlayerFollows(loc', status, data, page')
  /\ used' = Null
  /\ ended' = Null
  /\ UNCHANGED <<status, data, created>>
  /\ UNCHANGED outsideClient

(* ------------------------- the browser: Player -------------------------- *)
(* window.onSpotifyWebPlaybackSDKReady: setSdkLoaded(true) *)
SdkReady ==
  /\ pl # Null
  /\ ~pl.sdkLoaded
  /\ data # Null /\ data.accessToken # Absent
  /\ pl' = [pl EXCEPT !.sdkLoaded = TRUE, !.stale = TRUE]
  /\ used' = Null
  /\ ended' = Null
  /\ UNCHANGED <<status, data, loc, page, inst, created, auto, play>>
  /\ UNCHANGED outsideClient

(* the init effect after a render that changed one of its dependencies:    *)
(* the cleanup of its previous run, then its body, which creates and       *)
(* connects a Spotify.Player closing over the session of this render       *)
PlayerEffect ==
  /\ pl # Null
  /\ pl.stale
  /\ LET i == Disconnect(inst, pl.cleanup) IN
       IF pl.sdkLoaded /\ data # Null /\ data.accessToken # Absent
            /\ pl.player = 0
       THEN /\ created < MaxInstances
            /\ created' = created + 1
            /\ inst' = [id |-> created + 1, token |-> data.accessToken]
            /\ pl' = [pl EXCEPT !.player = created + 1,
                                !.cleanup = created + 1, !.stale = TRUE]
       ELSE /\ created' = created
            /\ inst' = i
            /\ pl' = [pl EXCEPT !.cleanup = 0, !.stale = FALSE]
  /\ used' = Null
  /\ ended' = Null
  /\ UNCHANGED <<status, data, loc, page, auto, play>>
  /\ UNCHANGED outsideClient

(* the SDK asks the connected instance for a token *)
GetOAuthToken ==
  /\ inst # Null
  /\ used' = [by |-> "getOAuthToken", token |-> inst.token]
  /\ ended' = Null
  /\ UNCHANGED <<status, data, loc, page, pl, inst, created, auto, play>>
  /\ UNCHANGED outsideClient

(* 'ready' on the connected instance: the handler sends the auto-transfer  *)
(* request and awaits its response                                         *)
Ready ==
  /\ inst # Null
  /\ auto = Null
  /\ auto' = [device |-> inst.id]
  /\ used' = [by |-> "autoTransfer", token |-> inst.token]
  /\ ended' = Null
  /\ UNCHANGED <<status, data, loc, page, pl, inst, created, play>>
  /\ UNCHANGED outsideClient

(* the auto-transfer request is through: onReady(device_id), which is the  *)
(* page's handlePlayerReady                                                *)
AutoTransferDone ==
  /\ auto # Null
  /\ auto' = Null
  /\ page' = IF page = Null THEN page
             ELSE [page EXCEPT !.deviceId = auto.device, !.playerError = ""]
  /\ PlayerFollows(loc, status, data, page')
  /\ used' = Null
  /\ ended' = Null
  /\ UNCHANGED <<status, data, loc, created, play>>
  /\ UNCHANGED outsideClient

(* the messages handlePlayTrack leaves in playerError *)
NotReadyMsg == "Player not ready. Please wait a moment and try again."
ActivateMsg == "Failed to activate device for playback"
UnavailableMsg == "Device not available for playback. Please try again."
PlayFailedMsg == "Failed to start playback"
RetryFailedMsg == "Failed to start playback after device activation"

(* the invocation's last statement: setPlayerError(msg), which reaches the  *)
(* page unless the page has been left meanwhile                             *)
Finish(msg, ok) ==
  /\ ended' = [ok |-> ok, transfers |-> play.transfers, plays |-> play.plays,
               first |-> play.first, detached |-> play.detached]
  /\ play' = Null
  /\ used' = Null
  /\ IF play.detached \/ page = Null
     THEN UNCHANGED <<page, pl, inst>>
     ELSE /\ page' = [page EXCEPT !.playerError = msg]
          /\ PlayerFollows(loc, status, data, page')

(* handlePlayTrack from the track list: without a device it only sets the  *)
(* player error; else it sends the transfer request                        *)
PlayClick ==
  /\ loc = "playlist"
  /\ Shown.view = "content"
  /\ play = Null
  /\ IF page.deviceId = Absent
     THEN /\ play' = Null
          /\ used' = Null
          /\ ended' = [ok |-> FALSE, transfers |-> 0, plays |-> 0,
                       first |-> "", detached |-> FALSE]
          /\ page' = [page EXCEPT !.playerError = NotReadyMsg]
          /\ PlayerFollows(loc, status, data, page')
     ELSE /\ play' = [token |-> data.accessToken, device |-> page.deviceId,
                      pc |-> "transfer", retry |-> FALSE,
                      transferred |-> Absent, transfers |-> 1, plays |-> 0,
                      first |-> "", detached |-> FALSE]
          /\ used' = [by |-> "transfer", token |-> data.accessToken]
          /\ ended' = Null
          /\ UNCHANGED <<page, pl, inst>>
  /\ UNCHANGED <<status, data, loc, created, auto>>
  /\ UNCHANGED outsideClient

(* transferPlaybackToDevice answering true although the request failed *)
TransferDone_IgnoresResult(ok) ==
  /\ play # Null
  /\ play.pc = "transfer"
  /\ play' = [play EXCEPT !.pc = "wait",
                          !.transferred = IF ok THEN play.device ELSE @]
  /\ used' = Null
  /\ ended' = Null
  /\ UNCHANGED <<page, pl, inst>>
  /\ UNCHANGED <<status, data, loc, created, auto>>
  /\ UNCHANGED outsideClient

(* transferPlaybackToDevice returns: true starts the wait, false ends the  *)
(* handler in its catch block                                              *)
TransferDone(ok) ==
  /\ play # Null
  /\ play.pc = "transfer"
  /\ IF ok
     THEN /\ play' = [play EXCEPT !.pc = "wait", !.transferred = play.device]
          /\ used' = Null
          /\ ended' = Null
          /\ UNCHANGED <<page, pl, inst>>
     ELSE Finish(IF play.retry THEN UnavailableMsg ELSE ActivateMsg, FALSE)
  /\ UNCHANGED <<status, data, loc, created, auto>>
  /\ UNCHANGED outsideClient

(* the wait is over: the play request goes out *)
PlaySend ==
  /\ play # Null
  /\ play.pc = "wait"
  /\ play' = [play EXCEPT !.pc = "play", !.plays = @ + 1]
  /\ used' = [by |-> "play", token |-> play.token]
  /\ ended' = Null
  /\ UNCHANGED <<status, data, loc, page, pl, inst, created, auto>>
  /\ UNCHANGED outsideClient

(* the play request answered with 404 / NO_ACTIVE_DEVICE starting the      *)
(* transfer again every time                                               *)
PlayDone_AlwaysRetries(res) ==
  /\ play # Null
  /\ play.pc = "play"
  /\ IF res = "noDevice"
     THEN /\ play' = [play EXCEPT !.pc = "transfer", !.retry = TRUE,
                                  !.transferred = Absent,
                                  !.transfers = @ + 1, !.first = res]
          /\ used' = [by |-> "transfer", token |-> play.token]
          /\ ended' = Null
          /\ UNCHANGED <<page, pl, inst>>
     ELSE Finish(IF res = "ok" THEN ""
                 ELSE IF play.retry THEN RetryFailedMsg ELSE PlayFailedMsg,
                 res = "ok")
  /\ UNCHANGED <<status, data, loc, created, auto>>
  /\ UNCHANGED outsideClient

(* the play request is answered: a first 404 / NO_ACTIVE_DEVICE sends the  *)
(* transfer request again, everything else ends the handler                *)
PlayDone(res) ==
  /\ play # Null
  /\ play.pc = "play"
  /\ IF res = "noDevice" /\ ~play.retry
     THEN /\ play' = [play EXCEPT !.pc = "transfer", !.retry = TRUE,
                                  !.transferred = Absent,
                                  !.transfers = @ + 1, !.first = res]
          /\ used' = [by |-> "transfer", token |-> play.token]
          /\ ended' = Null
          /\ UNCHANGED <<page, pl, inst>>
     ELSE Finish(IF res = "ok" THEN ""
                 ELSE IF play.retry THEN RetryFailedMsg ELSE PlayFailedMsg,
                 res = "ok")
  /\ UNCHANGED <<status, data, loc, created, auto>>
  /\ UNCHANGED outsideClient

NextClient ==
  \/ SessionLoaded
  \/ SessionUpdate
  \/ SessionLost
  \/ Reload
  \/ OpenPlaylist
  \/ FirstEffects
  \/ \E outcome \in {"found", "notFound", "failed"} : FetchDone(outcome)
  \/ LeavePlaylist
  \/ SdkReady
  \/ PlayerEffect
  \/ GetOAuthToken
  \/ Ready
  \/ AutoTransferDone
  \/ PlayClick
  \/ \E ok \in BOOLEAN : TransferDone(ok)
  \/ PlaySend
  \/ \E res \in {"ok", "noDevice", "error"} : PlayDone(res)

SpecClient == Init /\ [][NextClient]_clientVars

(* ------------------------------ toasts ---------------------------------- *)
DefaultDuration == 5000

(* setToasts([]) in place of the filter *)
Without_ClearsAll(prev, id) == <<>>

(* prev.filter((toast) => toast.id !== id) *)
Without(prev, id) == SelectSeq(prev, LAMBDA toast : toast.id # id)

OnScreen(id) == \E i \in DOMAIN toasts : toasts[i].id = id

(* showToast: the toast is appended and its timer is started. The ids,     *)
(* nine base-36 digits of Math.random(), are taken to be distinct.         *)
ShowToast(variant, duration) ==
  /\ minted < MaxToasts
  /\ LET id == minted + 1
         newToast == [id |-> id, variant |-> variant,
                      duration |-> IF duration = Absent THEN DefaultDuration
                                   ELSE duration] IN
       /\ toasts' = Append(toasts, newToast)
       /\ timers' = timers \cup {id}
  /\ minted' = minted + 1
  /\ UNCHANGED outsideToast

(* the dismiss button of a toast on screen *)
DismissToast(id) ==
  /\ OnScreen(id)
  /\ toasts' = Without(toasts, id)
  /\ UNCHANGED <<timers, minted>>
  /\ UNCHANGED outsideToast

(* the setTimeout callback of toast id *)
TimerFires(id) ==
  /\ id \in timers
  /\ toasts' = Without(toasts, id)
  /\ timers' = timers \ {id}
  /\ UNCHANGED minted
  /\ UNCHANGED outsideToast

NextToast ==
  \/ \E variant \in {"info", "error"}, duration \in {Absent, 1000} :
       ShowToast(variant, duration)
  \/ \E id \in 1..MaxToasts : DismissToast(id)
  \/ \E id \in 1..MaxToasts : TimerFires(id)

(* the event loop runs every timer callback that is due *)
SpecToast ==
  /\ Init
  /\ [][NextToast]_toastVars
  /\ \A id \in 1..MaxToasts : WF_toastVars(TimerFires(id))

(* ---- playlist page: fetchPlaylistInfo ---- *)

(* parseInt(searchParams.get('offset') || '0') *)
PageOffset(param) ==
  ParseInt(IF ~param.present \/ param.text = <<>> THEN <<"0">>
           ELSE param.text)

(* the query of '/api/spotify/playlists?limit=50' and of                    *)
(* '/api/spotify/playlists?limit=50&offset=50'                              *)
FirstQuery ==
  [limit |-> [present |-> TRUE, text |-> <<"5", "0">>], offset |-> NoParam]

SecondQuery ==
  [limit |-> [present |-> TRUE, text |-> <<"5", "0">>],
   offset |-> [present |-> TRUE, text |-> <<"5", "0">>]]

(* the ids on the page the playlists route answers a query with, for a     *)
(* collection of n playlists                                                *)
PlaylistsPage(n, query) ==
  LET limit == PageLimit("playlists", query.limit)
      offset == PageOffset(query.offset)
  IN {id \in 1..n : offset.v < id /\ id <= offset.v + limit.v}

(* the ids the page may be opened with: the user's playlists and one id of *)
(* no playlist of theirs                                                    *)
ForeignId == MaxPlaylists + 1

(* the page is opened for an id and fetchPlaylistInfo sends its first      *)
(* request                                                                  *)
OpenLookup(n, id) ==
  /\ stage = "closed"
  /\ collection' = n
  /\ playlistId' = id
  /\ stage' = "first"
  /\ playlist' = Absent
  /\ playlistNotFound' = FALSE
  /\ UNCHANGED outsideLookup

(* the first response: found, or the second request is sent; a response    *)
(* that is not ok ends the lookup with no state set                        *)
FirstPage(ok) ==
  /\ stage = "first"
  /\ IF ~ok
     THEN stage' = "done" /\ UNCHANGED playlist
     ELSE IF playlistId \in PlaylistsPage(collection, FirstQuery)
     THEN stage' = "done" /\ playlist' = playlistId
     ELSE stage' = "second" /\ UNCHANGED playlist
  /\ UNCHANGED <<collection, playlistId, playlistNotFound>>
  /\ UNCHANGED outsideLookup

(* the second response: found, or setPlaylistNotFound(true) *)
SecondPage(ok) ==
  /\ stage = "second"
  /\ stage' = "done"
  /\ IF ~ok
     THEN UNCHANGED <<playlist, playlistNotFound>>
     ELSE IF playlistId \in PlaylistsPage(collection, SecondQuery)
     THEN playlist' = playlistId /\ UNCHANGED playlistNotFound
     ELSE playlistNotFound' = TRUE /\ UNCHANGED playlist
  /\ UNCHANGED <<collection, playlistId>>
  /\ UNCHANGED outsideLookup

(* fetchData() runs again on the open page: the state is kept *)
LookupAgain ==
  /\ stage = "done"
  /\ stage' = "first"
  /\ UNCHANGED <<collection, playlistId, playlist, playlistNotFound>>
  /\ UNCHANGED outsideLookup

(* the page is left and its state is gone *)
CloseLookup ==
  /\ stage = "done"
  /\ collection' = 0
  /\ playlistId' = 0
  /\ stage' = "closed"
  /\ playlist' = Absent
  /\ playlistNotFound' = FALSE
  /\ UNCHANGED outsideLookup

NextLookup ==
  \/ \E n \in 0..MaxPlaylists :
       \E id \in (1..n) \cup {ForeignId} : OpenLookup(n, id)
  \/ \E ok \in BOOLEAN : FirstPage(ok)
  \/ \E ok \in BOOLEAN : SecondPage(ok)
  \/ LookupAgain
  \/ CloseLookup

SpecLookup == Init /\ [][NextLookup]_lookupVars

(* ---- Player: volume slider and mute button ---- *)

(* the values the slider hands to onChange, 0 to 100 *)
SliderValues == {(100 * i) \div VolumeSteps : i \in 0..VolumeSteps}

(* setPlayer(spotifyPlayer): the SDK player, created with volume 0.5 *)
SetPlayer ==
  /\ ~hasPlayer
  /\ hasPlayer' = TRUE
  /\ sdkVolume' = 50
  /\ UNCHANGED <<volume, isMuted, pending>>
  /\ UNCHANGED outsideVolume

(* handleVolumeChange up to its await *)
HandleVolumeChange(value) ==
  /\ hasPlayer
  /\ Len(pending) < MaxPending
  /\ pending' = Append(pending, [kind |-> "slider", newVolume |-> value,
                                 muted |-> (value = 0)])
  /\ UNCHANGED <<volume, isMuted, hasPlayer, sdkVolume>>
  /\ UNCHANGED outsideVolume

(* const newVolume = isMuted ? volume : 0 *)
MuteTarget(muted, vol) == IF muted THEN vol ELSE 0

(* handleMuteToggle up to its await, with the isMuted and volume of the    *)
(* render it was created in                                                 *)
HandleMuteToggle ==
  /\ hasPlayer
  /\ Len(pending) < MaxPending
  /\ pending' = Append(pending, [kind |-> "mute",
                                 newVolume |-> MuteTarget(isMuted, volume),
                                 muted |-> ~isMuted])
  /\ UNCHANGED <<volume, isMuted, hasPlayer, sdkVolume>>
  /\ UNCHANGED outsideVolume

(* player.setVolume resolves and the handler sets its state *)
SetVolumeOk ==
  /\ pending # <<>>
  /\ LET p == Head(pending) IN
       /\ sdkVolume' = p.newVolume
       /\ volume' = IF p.kind = "slider" THEN p.newVolume ELSE volume
       /\ isMuted' = p.muted
  /\ pending' = Tail(pending)
  /\ UNCHANGED hasPlayer
  /\ UNCHANGED outsideVolume

(* player.setVolume rejects and the catch block logs *)
SetVolumeFails ==
  /\ pending # <<>>
  /\ pending' = Tail(pending)
  /\ UNCHANGED <<volume, isMuted, hasPlayer, sdkVolume>>
  /\ UNCHANGED outsideVolume

NextVolume ==
  \/ SetPlayer
  \/ \E value \in SliderValues : HandleVolumeChange(value)
  \/ HandleMuteToggle
  \/ SetVolumeOk
  \/ SetVolumeFails

SpecVolume == Init /\ [][NextVolume]_volumeVars

(* ------------------- observations used by the properties ---------------- *)
(* the latest step completed a request *)
Delivered == last # Null /\ last.op = "request"
(* ... one that was answered from the stored token, without an exchange *)
FastPath == Delivered /\ last.tok # Null /\ last.reply = Null
(* ... one that went through refreshAccessToken *)
Refreshed == Delivered /\ last.reply # Null
(* the latest step was a sign-in *)
SignedIn == last # Null /\ last.op = "signin"
(* this step sends a request into refreshAccessToken *)
Invokes == BagCardinality(inflight') > BagCardinality(inflight)

(* ------------------------------------------------------------------------ *)
(* C1: single-flight refresh. Against an expired credential, concurrent     *)
(* callers cause exactly one token-endpoint exchange: at no moment are two  *)
(* exchanges in flight.                                                     *)
C1_SingleFlight == BagCardinality(inflight) <= 1

(* C2: no expired token is ever exposed. Whenever a request hands a session *)
(* with an accessToken to its consumer, that token is not past its          *)
(* expiresAt at that moment (also after a failed refresh).                  *)
C2_NoExpiredTokenExposed ==
  (Delivered /\ last.session # Null /\ last.session.accessToken # Absent
     /\ last.ret.accessTokenExpires # 0)
    => now <= last.ret.accessTokenExpires

(* C3: after a terminal rejection the session is failed and stays so:       *)
(* while the stored credential carries the error of a rejected refresh, no  *)
(* request starts another token-endpoint exchange, and every request        *)
(* delivered reports the error.                                             *)
C3_NoRefreshAfterRejection ==
  [][(stored # Null /\ stored.error = RefreshAccessTokenError
        /\ failedBy \in Terminal)
       => /\ ~Invokes
          /\ (last' # Null /\ last'.op = "request" /\ last'.reply = Null)
               => (last'.session # Null
                   /\ last'.session.error = RefreshAccessTokenError)]_vars

C5_RecoveryAfterTransientFailure ==
  (Refreshed /\ last.reply.kind = "ok" /\ failedBy \in Transient)
    => /\ last.session.accessToken = last.reply.access_token
       /\ now < last.ret.accessTokenExpires
       /\ last.session.error = NoError

(* C6: a successful refresh whose reply has no refresh_token keeps the      *)
(* refreshToken of the credential it refreshed; when the reply has one, the *)
(* stored refreshToken becomes the new one.                                 *)
C6_RefreshTokenCarriedForward ==
  (Refreshed /\ last.reply.kind = "ok")
    => /\ stored = last.ret
       /\ stored.refreshToken =
            IF last.reply.refresh_token = Absent
            THEN last.tok.refreshToken
            ELSE last.reply.refresh_token

C6_Witness ==
  /\ Refreshed
  /\ last.reply.kind = "ok"
  /\ last.reply.refresh_token = Absent
  /\ last.tok.refreshToken # Absent
  /\ stored.accessToken # last.tok.accessToken
  /\ stored.refreshToken = last.tok.refreshToken

(* C7: while the stored credential's expiresAt is more than the safety      *)
(* margin ahead, no request invokes the Token Refresher, and a request is   *)
(* answered with the stored credential, unchanged.                          *)
C7_FreshTokenNoRefresh ==
  [][(stored # Null /\ stored.accessTokenExpires > now + SafetyMarginMs)
       => /\ ~Invokes
          /\ (last' # Null /\ last'.op = "request" /\ last'.reply = Null)
               => (last'.ret = stored /\ stored' = stored
                   /\ last'.session.accessToken = stored.accessToken)]_vars

C7_Witness ==
  /\ FastPath
  /\ stored.accessTokenExpires > now + SafetyMarginMs
  /\ last.ret = stored
  /\ inflight = EmptyBag

(* C8 as stated: a request is never answered from the stored token when its *)
(* expiresAt is within the safety margin of the current time or past.       *)
C8_RefreshWithinMargin ==
  FastPath => last.tok.accessTokenExpires > now + SafetyMarginMs

(* C8 amended: whenever the stored credential's expiresAt is at or before   *)
(* the current time (past, or exactly at expiresAt), a request invokes the  *)
(* Token Refresher with the stored token (hence its refreshToken) and is    *)
(* not answered from the stored token; there is no safety margin.           *)
C8_RefreshWhenExpired ==
  [][(stored # Null /\ stored.accessTokenExpires <= now)
       => /\ ~(last' # Null /\ last'.op = "request" /\ last'.reply = Null)
          /\ Invokes => inflight' = inflight (+) SetToBag({stored})]_vars

C8_Witness ==
  /\ stored # Null
  /\ stored.accessTokenExpires = now
  /\ now > 0
  /\ BagIn(stored, inflight)

(* C9: with no credential present (after sign-out), a request gets no       *)
(* session, and each route handler answers 401 'Unauthorized' without a     *)
(* call to the provider API.                                                *)
C9_SignedOutUnauthorized ==
  (Delivered /\ last.tok = Null)
    => /\ last.session = Null
       /\ \A r \in {last.me, last.playlists, last.tracks} :
            r.status = 401 /\ r.error = "Unauthorized" /\ r.bearer = Absent

C9_Witness ==
  /\ issued > 0
  /\ stored = Null
  /\ Delivered
  /\ last.tok = Null
  /\ last.me.status = 401

(* C10: after a sign-in in which the provider returned an access token, a   *)
(* refresh token and an expiry in the future, the stored credential is      *)
(* exactly those with no error flag, and the request that follows at once   *)
(* returns that access token without invoking the Token Refresher.          *)
C10_FreshSignIn ==
  [][(SignedIn /\ last.account.refresh_token # Absent
        /\ last.account.expires_at # Absent
        /\ last.account.expires_at * 1000 > now)
       => /\ stored = [accessToken |-> last.account.access_token,
                       refreshToken |-> last.account.refresh_token,
                       accessTokenExpires |-> last.account.expires_at * 1000,
                       user |-> 1, error |-> NoError]
          /\ ~Invokes
          /\ (last' # Null /\ last'.op = "request" /\ last'.reply = Null)
               => (last'.session.accessToken = last.account.access_token
                   /\ last'.session.error = NoError)]_vars

(* the first token minted comes from a sign-in: here the request after it  *)
(* was answered with that token, and no exchange was started               *)
C10_Witness ==
  /\ FastPath
  /\ issued = 1
  /\ last.session.accessToken = 1
  /\ last.ret.refreshToken # Absent
  /\ last.ret.error = NoError
  /\ now < last.ret.accessTokenExpires
  /\ inflight = EmptyBag

(* C11: the playback side never uses a token other than the session's      *)
(* current one: whenever the Player hands a token to the SDK (getOAuthToken) *)
(* or a request carries one in its Authorization header (the auto-transfer  *)
(* on ready, the page's transfer and play requests), it is the accessToken  *)
(* the session holds at that moment.                                        *)
C11_CurrentTokenUsed ==
  used # Null => (data # Null /\ used.token = data.accessToken)

(* C12: whenever the session is absent or carries the session-expired error *)
(* flag, the home page and the playlist page resolve to a sign-in-again     *)
(* outcome (a sign-in prompt or a redirect to '/') and show no playlist or  *)
(* track content. Views shown while the session or the playlist is still   *)
(* loading are not counted as outcomes.                                     *)
C12_SignInAgainOutcome ==
  (data = Null \/ data.error = RefreshAccessTokenError)
    => /\ Shown.view \notin {"playlists", "content"}
       /\ ~Shown.player
       /\ (status # "loading"
             /\ (page = Null \/ (page.mounted /\ ~page.loading)))
            => (Shown.view \in {"signInPrompt", "signInAgain"}
                \/ Shown.push = "/")

(* C14: whenever the playlist page is mounted and the session status is     *)
(* 'unauthenticated', it issues a navigation to '/' and renders no          *)
(* playlist, track list or player.                                          *)
C14_UnauthenticatedRedirect ==
  (loc = "playlist" /\ page.mounted /\ status = "unauthenticated")
    => /\ PlaylistPage(status, data, page).push = "/"
       /\ PlaylistPage(status, data, page).view = "null"
       /\ ~PlaylistPage(status, data, page).player
       /\ pl = Null

C14_Witness ==
  /\ loc = "playlist"
  /\ page.mounted
  /\ status = "unauthenticated"
  /\ ~page.loading
  /\ ~page.playlistNotFound
  /\ page.deviceId # Absent
  /\ PlaylistPage(status, data, page).push = "/"

(* C13: every error thrown while a route handler calls the provider is     *)
(* answered with { error: 'Spotify API Error', message }; the HTTP status   *)
(* is the provider's status for a provider error, with a fixed message for  *)
(* 401, 403, 404, 429, 502 and 503, and 500 for any other error.            *)
C13_ErrorTranslation ==
  (response # Null /\ response.thrown # Null)
    => LET e == response.thrown IN
       /\ response.error = "Spotify API Error"
       /\ e.api => response.status = e.status
       /\ ~e.api => response.status = 500
       /\ (e.api /\ e.status = 401)
            => response.message = "Authentication required"
       /\ (e.api /\ e.status = 403)
            => response.message = "Spotify Premium required for playback"
       /\ (e.api /\ e.status = 404) => response.message = "Resource not found"
       /\ (e.api /\ e.status = 429)
            => response.message = "Rate limit exceeded, please try again later"
       /\ (e.api /\ e.status \in {502, 503})
            => response.message = "Spotify service temporarily unavailable"

C13_Witness ==
  /\ response # Null
  /\ response.thrown # Null
  /\ ~response.thrown.api
  /\ response.route = "tracks"
  /\ response.bearer # Absent
  /\ response.status = 500

(* C15: writes to the stored credential are totally ordered. When a refresh *)
(* completes right after a successful one, its write was computed from the  *)
(* credential the successful one stored, so a refresh that started earlier  *)
(* never puts a stale credential back over the newer one.                   *)
C15_NoStaleOverwrite ==
  [][(Refreshed /\ last.reply.kind = "ok" /\ stored = last.ret
        /\ last' # Null /\ last'.op = "request" /\ last'.reply # Null)
       => (last'.tok = stored
           /\ stored'.accessToken # last.tok.accessToken)]_vars

(* C16: the error flag is cleared only by a fresh sign-in. Once the stored  *)
(* credential carries the error, every later credential carries it too,     *)
(* whatever accessor calls and refresh outcomes follow, until a step that   *)
(* runs the sign-in branch of the jwt callback.                             *)
C16_ErrorClearedOnlyBySignIn ==
  [][(stored # Null /\ stored.error = RefreshAccessTokenError
        /\ stored' # Null /\ stored'.error # RefreshAccessTokenError)
       => SignedIn']_vars

(* C17: a failed refresh leaves the prior credential in place: after a      *)
(* refresh attempt that fails, accessToken, refreshToken and expiresAt of   *)
(* the returned and stored credential are those it had before the attempt.  *)
C17_FailureKeepsCredential ==
  (Refreshed /\ last.reply.kind # "ok")
    => /\ last.ret.accessToken = last.tok.accessToken
       /\ last.ret.refreshToken = last.tok.refreshToken
       /\ last.ret.accessTokenExpires = last.tok.accessTokenExpires
       /\ stored = last.ret

C17_Witness ==
  /\ Refreshed
  /\ last.reply.kind # "ok"
  /\ last.tok.refreshToken # Absent
  /\ last.tok.accessTokenExpires # 0
  /\ stored.accessToken = last.tok.accessToken
  /\ stored.refreshToken = last.tok.refreshToken

(* C18: after a terminal rejection of the refresh the sensitive fields are  *)
(* cleared: neither the credential nor the session handed to consumers      *)
(* holds the old accessToken or refreshToken.                               *)
C18_RejectionClearsTokens ==
  (Refreshed /\ last.reply.kind \in Terminal)
    => /\ last.ret.accessToken = Absent
       /\ last.ret.refreshToken = Absent
       /\ last.session.accessToken = Absent

(* C19: no raw error crosses the boundary. For every way the exchange can   *)
(* end, refreshAccessToken returns a token, and the only error value in the *)
(* token and in the session is the typed marker.                            *)
C19_OnlyTypedError ==
  Refreshed
    => /\ last.ret # Null
       /\ last.ret.user = last.tok.user
       /\ last.ret.error \in {NoError, RefreshAccessTokenError}
       /\ last.session.error = last.ret.error
       /\ last.reply.kind # "ok" => last.ret.error = RefreshAccessTokenError

C19_Witness ==
  /\ Refreshed
  /\ last.reply.kind = "badBody"
  /\ last.tok.error = NoError
  /\ last.session.error = RefreshAccessTokenError

(* C20: after a successful refresh performed at time now with a lifetime of *)
(* L seconds, the stored expiresAt is now + L * 1000 milliseconds, which is *)
(* later than now for every L > 0.                                          *)
C20_ExpiryArithmetic ==
  (Refreshed /\ last.reply.kind = "ok")
    => /\ stored.accessTokenExpires = now + last.reply.expires_in * 1000
       /\ last.reply.expires_in > 0 => stored.accessTokenExpires > now

C20_Witness ==
  /\ Refreshed
  /\ last.reply.kind = "ok"
  /\ now > 0
  /\ last.reply.expires_in > 0
  /\ stored.accessTokenExpires = now + last.reply.expires_in * 1000

(* C21: the token refresher is only ever invoked with a non-empty refresh   *)
(* token: no request that is awaiting the token endpoint was sent by        *)
(* refreshAccessToken for a token whose refreshToken is absent, also after  *)
(* a sign-in in which the provider returned no refresh token or no expiry.  *)
C21_RefreshTokenPresent ==
  \A tok \in BagToSet(inflight) : tok.refreshToken # Absent

(* C22: while the Player stays mounted, the instance stored in its state is *)
(* never disconnected: the init effect's cleanup does not run because of    *)
(* the effect's own setPlayer call or because the page rendered again with  *)
(* new onReady/onError callbacks, so the stored instance is the connected   *)
(* one.                                                                     *)
C22_StoredPlayerConnected ==
  (pl # Null /\ pl.player # 0) => (inst # Null /\ inst.id = pl.player)

(* C23: in handlePlayTrack a play request is sent only after a transfer     *)
(* request for the same device has succeeded in that invocation; when no    *)
(* device id is known, no request is sent at all and the player error       *)
(* message is set.                                                          *)
C23_PlayAfterTransfer ==
  [][/\ (used' # Null /\ used'.by = "play")
          => (play'.device # Absent /\ play'.transferred = play'.device)
     /\ (loc = "playlist" /\ Shown.view = "content" /\ play = Null
           /\ page.deviceId = Absent /\ ended' # Null)
          => (used' = Null /\ play' = Null /\ ended'.transfers = 0
              /\ ended'.plays = 0 /\ page'.playerError = NotReadyMsg)
    ]_clientVars

C23_Witness ==
  /\ used # Null
  /\ used.by = "play"
  /\ play.retry
  /\ play.transferred = play.device
  /\ play.plays = 2

(* C24: an invocation of handlePlayTrack sends at most two transfer and at  *)
(* most two play requests, the second play request only after a first       *)
(* answer of 404 / NO_ACTIVE_DEVICE, and when it ends playerError is empty  *)
(* exactly when its last play request succeeded.                            *)
C24_BoundedRetries ==
  /\ play # Null => (play.transfers <= 2 /\ play.plays <= 2)
  /\ ended # Null
       => /\ ended.transfers <= 2
          /\ ended.plays <= 2
          /\ ended.plays = 2 => ended.first = "noDevice"
          /\ ~ended.detached => (page.playerError = "" <=> ended.ok)

C24_Witness ==
  /\ ended # Null
  /\ ended.transfers = 2
  /\ ended.plays = 2
  /\ ended.ok
  /\ ~ended.detached
  /\ page.playerError = ""

(* C25: toasts auto-dismiss. Every toast on screen is eventually off the    *)
(* list once its timer has fired, dismissed by hand before or not, and a    *)
(* step that removes a toast removes exactly one and leaves the others in   *)
(* the list in their order.                                                 *)
C25_AutoDismiss ==
  /\ [][Len(toasts') < Len(toasts)
          => \E i \in DOMAIN toasts :
               toasts' = SubSeq(toasts, 1, i - 1)
                           \o SubSeq(toasts, i + 1, Len(toasts))]_toastVars
  /\ \A id \in 1..MaxToasts : OnScreen(id) ~> ~OnScreen(id)
  /\ \A id \in 1..MaxToasts : [](OnScreen(id) => id \in timers)

C25_Witness ==
  /\ minted = 3
  /\ Len(toasts) = 2
  /\ toasts[1].id = 1
  /\ toasts[2].id = 3
  /\ timers = {1, 3}

(* C26: for every request the page size forwarded to the provider is a     *)
(* number no greater than 50 on the playlists route and no greater than    *)
(* 100 on the playlist-tracks route, whatever the 'limit' parameter is,    *)
(* and it is 20 and 100 when the parameter is absent.                      *)
C26_PageSizeBounded ==
  (call # Null /\ call.route \in {"playlists", "tracks"})
    => /\ ~call.limit.nan
       /\ call.limit.v <= (IF call.route = "playlists" THEN 50 ELSE 100)
       /\ ~call.param.present
            => call.limit.v = (IF call.route = "playlists" THEN 20 ELSE 100)

C28_MutedIffSilent == hasPlayer => (isMuted <=> sdkVolume = 0)

(* C29: playlistNotFound is never set for an id that the user's playlist   *)
(* collection contains, whatever the size of that collection.              *)
C29_NotFoundOnlyIfMissing == playlistNotFound => playlistId \notin 1..collection
====
